---- MODULE Spec2Model ----
(***************************************************************************)
(* The uptime monitor of my-pathways/monitor.  The repository holds three  *)
(* monitor scripts that share the prober, the retrier and the state store  *)
(* and differ in change detection, notification decision and message:      *)
(*   "monitor"  src/monitor.mjs        (hasChanges)                        *)
(*   "part_001" src/unnamed/part_001   (detectChanges)                     *)
(*   "part_002" src/unnamed/part_002   (getChangedServices)                *)
(* One run of a script: all targets are checked concurrently (checkOnce    *)
(* with retries and cooldowns), then the state file is loaded, changes are *)
(* detected, the state file is written and a message is handed to notify.  *)
(***************************************************************************)
EXTENDS Integers, Sequences, FiniteSets, TLC

VARIABLES
    script,         \* which monitor script the scheduler runs
    env,            \* the *_MONITOR_URL environment variables, by target name
    force,          \* process.env.FORCE_STATUS_REPORT === "true"
    webhook,        \* DISCORD_WEBHOOK_URL is non-empty
    file,           \* content of STATE_FILE
    pc,             \* position of main()
    chk,            \* per target: the checkWithRetries call in flight (i, phase, last)
    results,        \* per target: the outcome its call returned, None while pending
    seen,           \* per target: what the network did (attempts, cooldowns, ...)
    previousState,  \* value returned by loadPreviousState()
    changes,        \* the changes the running script detected
    shouldNotify,   \* shouldNotify (changes.length > 0 in part_001)
    saved,          \* how writeFileSync ended in this run
    sent,           \* messages handed to notify() in this run
    posts,          \* POST requests issued to the webhook in this run
    exitCode,       \* process exit code, -1 while running
    delivery,       \* how the POST of this run's notify call ended
    probe,          \* a single checkOnce call: its target, response and outcome
    lastUp,         \* the up values of the preceding run, known if it saved them
    other,          \* a second invocation that overlaps this one, if any
    wrapper         \* position of the status report script, "none" without it

vars == <<script, env, force, webhook, file, pc, chk, results, seen, previousState,
          changes, shouldNotify, saved, sent, posts, exitCode, delivery, probe,
          lastUp, other, wrapper>>

----------------------------------------------------------------------------
(* Program constants and input domains *)

RETRIES == 2

\* At most MaxTargets of the *_MONITOR_URL variables are set.
MaxTargets == 2

Scripts == {"monitor", "part_001", "part_002"}

Urls == {"u1", "u2"}

Unset == ""

\* The TARGETS literal of each script, before .filter(target => target.url).
TargetNames(s) ==
    IF s = "part_002" THEN <<"Production", "Development">>
                      ELSE <<"Production", "Staging", "Development">>

Names == {"Production", "Staging", "Development"}

RECURSIVE FilterSet(_, _)
FilterSet(names, e) ==
    IF names = <<>> THEN <<>>
    ELSE LET rest == FilterSet(Tail(names), e)
             n    == Head(names)
         IN  IF e[n] # Unset
             THEN <<[name |-> n, url |-> e[n], expectStatus |-> 200,
                     expectText |-> [isNull |-> TRUE, chars |-> <<>>]]>> \o rest
             ELSE rest

\* TARGETS: the configured targets, in configuration order.
TARGETS(s, e) == FilterSet(TargetNames(s), e)

Targets == TARGETS(script, env)

Idx == 1..Len(Targets)

\* Environments: every variable a URL or unset; a variable the script does
\* not read is left unset.
Envs(s) ==
    {e \in [Names -> Urls \cup {Unset}] :
        /\ \A n \in Names : (\A k \in 1..Len(TargetNames(s)) : TargetNames(s)[k] # n)
                              => e[n] = Unset
        /\ Cardinality({n \in Names : e[n] # Unset}) <= MaxTargets}

----------------------------------------------------------------------------
(* Prober: checkOnce *)

None == [none |-> TRUE]

\* What one fetch can do: throw (network error, timeout, abort) or answer
\* with a status after elapsed milliseconds.
Responses ==
    {[kind |-> "error", status |-> 0, elapsed |-> 0],
     [kind |-> "http", status |-> 200, elapsed |-> 120],
     [kind |-> "http", status |-> 500, elapsed |-> 120]}

ResOk(status) == status >= 200 /\ status <= 299

SLOW_THRESHOLD_MS == 2500

\* ms: null
NullMs == -1

\* A string is the sequence of its characters; expectText is null or a string,
\* and is truthy when it is a non-empty string.
Truthy(text) == ~text.isNull /\ text.chars # <<>>

\* A lower-casing that leaves every character as it is.
sameCase(chars) == chars

\* String.prototype.toLowerCase over the letters in use.
toLowerCase(chars) ==
    [k \in DOMAIN chars |->
        IF chars[k] = "O" THEN "o" ELSE IF chars[k] = "K" THEN "k" ELSE chars[k]]

\* text.includes(sub)
includes(text, sub) ==
    \E i \in 1..(Len(text) - Len(sub) + 1) : SubSeq(text, i, i + Len(sub) - 1) = sub

\* Whether checkOnce calls res.text().
readsBody(target, r) == r.kind = "http" /\ Truthy(target.expectText)

\* checkOnce(target) for the response r of fetch.  A throw of fetch or of
\* res.text() is caught and returned as a failed outcome; the body is read only
\* when target.expectText is truthy (no configured target sets it).
checkOnce(target, r) ==
    IF r.kind = "error" \/ (readsBody(target, r) /\ r.body.fails)
    THEN [name |-> target.name, url |-> target.url, up |-> FALSE,
          status |-> 0, ms |-> NullMs, slow |-> FALSE, error |-> TRUE]
    ELSE LET okStatus == IF target.expectStatus # 0
                         THEN r.status = target.expectStatus
                         ELSE ResOk(r.status)
             okText == IF Truthy(target.expectText)
                       THEN includes(toLowerCase(r.body.chars),
                                     toLowerCase(target.expectText.chars))
                       ELSE TRUE
         IN  [name |-> target.name, url |-> target.url,
              up |-> okStatus /\ okText, status |-> r.status,
              ms |-> r.elapsed, slow |-> r.elapsed > SLOW_THRESHOLD_MS,
              error |-> FALSE]

----------------------------------------------------------------------------
(* Retrier: checkWithRetries, one step per await *)

NewCheck == [i |-> 0, phase |-> "check", last |-> None]

NewSeen == [attempts |-> 0, cooldowns |-> 0, resp |-> None, firstUp |-> 0,
            afterUp |-> 0, rank |-> 0]

\* afterCheck without the early return `if (last.up) return last`.
afterCheckNoReturn(c, o) ==
    IF c.i < RETRIES THEN [c EXCEPT !.last = o, !.phase = "wait"]
    ELSE [c EXCEPT !.last = o, !.i = c.i + 1, !.phase = "done"]

\* The loop body after `last = await checkOnce(target)` returned o.
afterCheck(c, o) ==
    IF o.up THEN [c EXCEPT !.last = o, !.phase = "done"]
    ELSE IF c.i < RETRIES THEN [c EXCEPT !.last = o, !.phase = "wait"]
    ELSE [c EXCEPT !.last = o, !.i = c.i + 1, !.phase = "done"]

\* `await wait(COOLDOWN_MS)` elapsed: i++ and the loop test i <= RETRIES.
afterWait(c) ==
    IF c.i + 1 <= RETRIES THEN [c EXCEPT !.i = c.i + 1, !.phase = "check"]
    ELSE [c EXCEPT !.i = c.i + 1, !.phase = "done"]

RECURSIVE retryLoop(_, _, _)
retryLoop(c, target, rs) ==
    IF c.phase = "done" \/ (c.phase = "check" /\ rs = <<>>) THEN c
    ELSE IF c.phase = "wait" THEN retryLoop(afterWait(c), target, rs)
    ELSE retryLoop(afterCheck(c, checkOnce(target, Head(rs))), target, Tail(rs))

\* checkWithRetries(target) run to its return, its fetches answering rs in turn.
checkWithRetries(target, rs) == retryLoop(NewCheck, target, rs).last

----------------------------------------------------------------------------
(* JavaScript values and the state store *)

\* JS values met by the state code: true, false, undefined, and any other
\* value JSON can carry (a string, a number, null, an array, an object).
JsTrue == "T"
JsFalse == "F"
JsUndefined == "U"
JsOther == "X"

JsBool(b) == IF b THEN JsTrue ELSE JsFalse

\* A plain JS object: its own properties in insertion order, keys unique.
ObjHas(props, key) == \E k \in DOMAIN props : props[k].key = key

ObjGet(props, key) ==
    IF ObjHas(props, key)
    THEN props[CHOOSE k \in DOMAIN props : props[k].key = key].val
    ELSE JsUndefined

\* obj[key] = val
ObjSet(props, key, val) ==
    IF ObjHas(props, key)
    THEN [k \in DOMAIN props |->
            IF props[k].key = key THEN [key |-> key, val |-> val] ELSE props[k]]
    ELSE Append(props, [key |-> key, val |-> val])

EmptyObject == [t |-> "object", props |-> <<>>]

\* The file: absent, or a text.  A text is unparseable ("garbage") or the JSON
\* text of null, of a number, of an array, or of an object whose members are
\* key : literal pairs.
Absent == [kind |-> "absent", members |-> <<>>]

Garbage == [kind |-> "garbage", members |-> <<>>]

Literals == {"true", "false", "\"x\""}

BoolLiterals == {"true", "false"}

UrlOrder == <<"u1", "u2">>

RECURSIVE MembersOf(_, _)
MembersOf(order, m) ==
    IF order = <<>> THEN <<>>
    ELSE (IF Head(order) \in DOMAIN m
          THEN <<[key |-> Head(order), lit |-> m[Head(order)]]>>
          ELSE <<>>) \o MembersOf(Tail(order), m)

\* Object texts: any subset of the URLs as keys with boolean values, or one
\* URL with another value.
ObjectTexts ==
    {[kind |-> "object", members |-> MembersOf(UrlOrder, m)] :
        m \in UNION {[U -> BoolLiterals] : U \in SUBSET Urls}}
    \cup {[kind |-> "object", members |-> <<[key |-> u, lit |-> "\"x\""]>>] : u \in Urls}

Files ==
    {Absent, Garbage, [kind |-> "null", members |-> <<>>],
     [kind |-> "number", members |-> <<>>], [kind |-> "array", members |-> <<>>]}
    \cup ObjectTexts

\* JSON.stringify of a boolean / JSON.parse of a literal.
Lit(v) == IF v = JsTrue THEN "true" ELSE IF v = JsFalse THEN "false" ELSE "\"x\""

\* Val that keeps the literal as a string instead of converting it.
ValAsString(lit) == JsOther

Val(lit) == IF lit = "true" THEN JsTrue ELSE IF lit = "false" THEN JsFalse ELSE JsOther

\* JSON.stringify(state, null, 2) of a plain object.
JSONstringify(obj) ==
    [kind |-> "object",
     members |-> [k \in DOMAIN obj.props |->
                    [key |-> obj.props[k].key, lit |-> Lit(obj.props[k].val)]]]

RECURSIVE ParseMembers(_, _)
ParseMembers(members, props) ==
    IF members = <<>> THEN props
    ELSE ParseMembers(Tail(members),
                      ObjSet(props, Head(members).key, Val(Head(members).lit)))

\* JSON.parse(data) of a parseable text.
JSONparse(text) ==
    IF text.kind = "object"
    THEN [t |-> "object", props |-> ParseMembers(text.members, <<>>)]
    ELSE [t |-> text.kind, props |-> <<>>]

\* loadPreviousState(): readFileSync throws on an absent file and JSON.parse on
\* an unparseable text; both are caught and {} is returned.
loadPreviousState(f) ==
    IF f.kind \in {"absent", "garbage"} THEN EmptyObject ELSE JSONparse(f)

\* How writeFileSync can end: written; failed before the file was touched
\* (open failed); failed after the file was truncated (write failed).
SaveOutcomes == {"ok", "eopen", "ewrite"}

\* A save that reports success and writes nothing.
savePreviousStateNowhere(f, state, how) == f

\* savePreviousState(state): the file after the call.
savePreviousState(f, state, how) ==
    IF how = "ok" THEN JSONstringify(state)
    ELSE IF how = "eopen" THEN f
    ELSE Garbage

\* previousState[url]: undefined unless previousState is an object with
\* that own property (a number or an array has no such property).
Prior(prev, url) == IF prev.t = "object" THEN ObjGet(prev.props, url) ELSE JsUndefined

\* previousState[url] throws a TypeError when previousState is null.
PriorThrows(prev) == prev.t = "null"

----------------------------------------------------------------------------
(* Change detection *)

\* hasChanges that also reports every target that is down.
hasChangesOrDown(currentResults, prev) ==
    \E k \in DOMAIN currentResults :
        LET wasUp == Prior(prev, currentResults[k].url)
            isUp  == JsBool(currentResults[k].up)
        IN  wasUp = JsUndefined \/ wasUp # isUp \/ ~currentResults[k].up

\* hasChanges of monitor.mjs: a target seen for the first time counts as a
\* change, and so does a target whose stored value differs.
hasChanges(currentResults, prev) ==
    \E k \in DOMAIN currentResults :
        LET wasUp == Prior(prev, currentResults[k].url)
            isUp  == JsBool(currentResults[k].up)
        IN  wasUp = JsUndefined \/ wasUp # isUp

RECURSIVE detectLoop(_, _, _)
detectLoop(currentResults, prev, acc) ==
    IF currentResults = <<>> THEN acc
    ELSE LET result == Head(currentResults)
             wasUp  == Prior(prev, result.url)
             isUp   == JsBool(result.up)
             more   == IF wasUp = JsUndefined
                       THEN IF ~result.up
                            THEN <<[type |-> "initial_down", result |-> result]>>
                            ELSE <<>>
                       ELSE IF wasUp # isUp
                            THEN IF result.up
                                 THEN <<[type |-> "recovered", result |-> result]>>
                                 ELSE <<[type |-> "went_down", result |-> result]>>
                            ELSE <<>>
         IN  detectLoop(Tail(currentResults), prev, acc \o more)

\* detectChanges of part_001.
detectChanges(currentResults, prev) == detectLoop(currentResults, prev, <<>>)

RECURSIVE changedLoop(_, _, _)
changedLoop(currentResults, prev, acc) ==
    IF currentResults = <<>> THEN acc
    ELSE LET result == Head(currentResults)
             wasUp  == Prior(prev, result.url)
             isUp   == JsBool(result.up)
             more   == IF wasUp = JsUndefined THEN <<>>
                       ELSE IF wasUp # isUp
                            THEN <<[type |-> IF result.up THEN "recovered" ELSE "down",
                                    result |-> result]>>
                            ELSE <<>>
         IN  changedLoop(Tail(currentResults), prev, acc \o more)

RECURSIVE changedLoopSwapped(_, _, _)
changedLoopSwapped(currentResults, prev, acc) ==
    IF currentResults = <<>> THEN acc
    ELSE LET result == Head(currentResults)
             wasUp  == Prior(prev, result.url)
             isUp   == JsBool(result.up)
             more   == IF wasUp = JsUndefined THEN <<>>
                       ELSE IF wasUp # isUp
                            THEN <<[type |-> IF result.up THEN "down" ELSE "recovered",
                                    result |-> result]>>
                            ELSE <<>>
         IN  changedLoopSwapped(Tail(currentResults), prev, acc \o more)

\* getChangedServices with the two change types exchanged.
getChangedServicesSwapped(currentResults, prev) ==
    changedLoopSwapped(currentResults, prev, <<>>)

\* getChangedServices of part_002.
getChangedServices(currentResults, prev) == changedLoop(currentResults, prev, <<>>)

\* The changes the running script computes (monitor.mjs computes none, only
\* the flag), and its shouldNotify / changes.length > 0.
ChangesOf(s, currentResults, prev) ==
    IF s = "part_001" THEN detectChanges(currentResults, prev)
    ELSE IF s = "part_002" THEN getChangedServices(currentResults, prev)
    ELSE <<>>

ShouldNotifyOf(s, currentResults, prev) ==
    IF s = "monitor" THEN hasChanges(currentResults, prev)
    ELSE Len(ChangesOf(s, currentResults, prev)) > 0

RECURSIVE stateLoop(_, _)
stateLoop(currentResults, props) ==
    IF currentResults = <<>> THEN props
    ELSE stateLoop(Tail(currentResults),
                   ObjSet(props, Head(currentResults).url, JsBool(Head(currentResults).up)))

\* currentState that starts from the loaded state instead of {}.
currentStateKept(currentResults) ==
    [t |-> "object", props |-> stateLoop(currentResults, previousState.props)]

\* const currentState = {}; results.forEach(r => currentState[r.url] = r.up)
currentState(currentResults) == [t |-> "object", props |-> stateLoop(currentResults, <<>>)]

----------------------------------------------------------------------------
(* Messages: a message is the sequence of its lines *)

Line(tag, name, url) == [tag |-> tag, name |-> name, url |-> url]

RECURSIVE Filter(_, _)
Filter(rs, wantUp) ==
    IF rs = <<>> THEN <<>>
    ELSE IF Head(rs).up = wantUp THEN <<Head(rs)>> \o Filter(Tail(rs), wantUp)
    ELSE Filter(Tail(rs), wantUp)

RECURSIVE FilterType(_, _)
FilterType(cs, type) ==
    IF cs = <<>> THEN <<>>
    ELSE IF Head(cs).type = type THEN <<Head(cs).result>> \o FilterType(Tail(cs), type)
    ELSE FilterType(Tail(cs), type)

Lines(tag, rs) == [k \in DOMAIN rs |-> Line(tag, rs[k].name, rs[k].url)]

\* fmt(result)
fmt(result) == Line(IF result.up THEN "OK" ELSE "DOWN", result.name, result.url)

\* The up / down listing shared by the full reports.
Listing(title, rs) ==
    LET upServices   == Filter(rs, TRUE)
        downServices == Filter(rs, FALSE)
    IN  <<Line("title", title, "")>>
        \o (IF Len(upServices) > 0
            THEN <<Line("head", "Services Up", "")>> \o Lines("up", upServices)
            ELSE <<>>)
        \o (IF Len(downServices) > 0
            THEN <<Line("head", "Services Down", "")>> \o Lines("down", downServices)
            ELSE <<>>)
        \o <<Line("footer", "", "")>>

\* formatStatusMessage of monitor.mjs: always the listing of all results.
formatStatusMessage(rs) == Listing("SERVICE STATUS UPDATES", rs)

\* formatStatusMessage of part_002.
formatStatusMessage2(rs, isFullReport, changedServices) ==
    IF isFullReport THEN Listing("SERVICE STATUS REPORT", rs)
    ELSE LET recoveredServices == FilterType(changedServices, "recovered")
             downServices      == FilterType(changedServices, "down")
         IN  <<Line("title", "SERVICE STATUS CHANGES", "")>>
             \o (IF Len(recoveredServices) > 0
                 THEN <<Line("head", "Services Recovered", "")>>
                      \o Lines("is back online", recoveredServices)
                 ELSE <<>>)
             \o (IF Len(downServices) > 0
                 THEN <<Line("head", "Services Down", "")>>
                      \o Lines("went down", downServices)
                 ELSE <<>>)
             \o <<Line("footer", "", "")>>

RECURSIVE changeMessages(_)
changeMessages(cs) ==
    IF cs = <<>> THEN <<>>
    ELSE LET c == Head(cs)
             heading == IF c.type = "initial_down" THEN "INITIAL CHECK - SERVICE DOWN"
                        ELSE IF c.type = "went_down" THEN "SERVICE WENT DOWN"
                        ELSE "SERVICE RECOVERED"
         IN  <<Line("head", heading, ""), fmt(c.result)>> \o changeMessages(Tail(cs))

\* Whether main() of the running script calls notify: `changes.length > 0`
\* or `else if (forceReport)` in part_001, `shouldNotify || forceReport` in
\* the other two.
Sends(s, notifyFlag, forceReport) == notifyFlag \/ forceReport

\* The message it then hands to notify.
MessageOf(s, rs, cs, forceReport) ==
    IF s = "part_001"
    THEN IF Len(cs) > 0 THEN changeMessages(cs)
         ELSE <<Line("title", "CURRENT STATUS REPORT", "")>>
              \o [k \in DOMAIN rs |-> fmt(rs[k])]
    ELSE IF s = "monitor" THEN formatStatusMessage(rs)
    ELSE formatStatusMessage2(rs, forceReport, cs)

FailureMessage == <<Line("title", "Monitor failed", "")>>

----------------------------------------------------------------------------
(* The run: main() and its catch handler *)

\* No second invocation.
NoOther == [pc |-> "none"]

\* No preceding run, or one that did not save its outcomes.
NoRun == [known |-> FALSE, up |-> <<>>]

AllDone == \A t \in Idx : results[t] # None

\* An array filled in the order in which the promises resolve.
inArrivalOrder(values, t, o) ==
    [values EXCEPT ![CHOOSE k \in DOMAIN values :
                        values[k] = None /\ \A j \in 1..(k - 1) : values[j] # None] = o]

\* Promise.all: the value of the t-th promise becomes the t-th element of
\* the array, whenever the promise resolves.
promiseAll(values, t, o) == [values EXCEPT ![t] = o]

\* The checks that have returned.
Returned == {k \in Idx : chk[k].phase = "done"}

InitRun ==
    /\ pc = "start"
    /\ chk = [t \in Idx |-> NewCheck]
    /\ results = [t \in Idx |-> None]
    /\ seen = [t \in Idx |-> NewSeen]
    /\ previousState = None
    /\ changes = <<>>
    /\ shouldNotify = FALSE
    /\ saved = "no"
    /\ sent = <<>>
    /\ posts = 0
    /\ exitCode = -1
    /\ delivery = "none"
    /\ lastUp = NoRun

Init ==
    /\ script \in Scripts
    /\ env \in Envs(script)
    /\ force \in BOOLEAN
    /\ webhook \in BOOLEAN
    /\ file \in Files
    /\ probe = None
    /\ other = NoOther
    /\ wrapper = "none"
    /\ InitRun

\* main() starts: Promise.all(TARGETS.map(checkWithRetries)) launches every check.
Launch ==
    /\ pc = "start"
    /\ pc' = "probing"
    /\ UNCHANGED <<script, env, force, webhook, file, chk, results, seen, previousState,
                   changes, shouldNotify, saved, sent, posts, exitCode,
                   delivery, probe, lastUp, other, wrapper>>

\* The checkWithRetries call of target t runs to its return; rs are the
\* responses its fetches get.  The call shares no state with the other calls.
Check(t, rs) ==
    /\ pc = "probing"
    /\ results[t] = None
    /\ results' = promiseAll(results, t, checkWithRetries(Targets[t], rs))
    /\ UNCHANGED <<script, env, force, webhook, file, pc, chk, seen, previousState,
                   changes, shouldNotify, saved, sent, posts, exitCode,
                   delivery, probe, lastUp, other, wrapper>>

\* One checkOnce of target t resolves with the response r.
Attempt(t, r) ==
    /\ pc = "probing"
    /\ chk[t].phase = "check"
    /\ LET o == checkOnce(Targets[t], r)
           c == afterCheck(chk[t], o)
       IN  /\ chk' = [chk EXCEPT ![t] = c]
           /\ results' = IF c.phase = "done" THEN promiseAll(results, t, c.last)
                         ELSE results
           /\ seen' = [seen EXCEPT ![t] =
                  [attempts |-> @.attempts + 1,
                   cooldowns |-> @.cooldowns,
                   resp |-> r,
                   firstUp |-> IF @.firstUp = 0 /\ o.up THEN @.attempts + 1
                               ELSE @.firstUp,
                   afterUp |-> IF @.firstUp # 0 THEN @.afterUp + 1 ELSE @.afterUp,
                   rank |-> IF c.phase = "done" THEN Cardinality(Returned) + 1
                            ELSE @.rank]]
    /\ UNCHANGED <<script, env, force, webhook, file, pc, previousState,
                   changes, shouldNotify, saved, sent, posts, exitCode,
                   delivery, probe, lastUp, other, wrapper>>

\* The cooldown of target t elapses.
Cooldown(t) ==
    /\ pc = "probing"
    /\ chk[t].phase = "wait"
    /\ LET c == afterWait(chk[t])
       IN  /\ chk' = [chk EXCEPT ![t] = c]
           /\ results' = IF c.phase = "done" THEN promiseAll(results, t, c.last)
                         ELSE results
           /\ seen' = [seen EXCEPT ![t] =
                  [@ EXCEPT !.cooldowns = @ + 1,
                            !.afterUp = IF seen[t].firstUp # 0 THEN @ + 1 ELSE @,
                            !.rank = IF c.phase = "done" THEN Cardinality(Returned) + 1
                                     ELSE @]]
    /\ UNCHANGED <<script, env, force, webhook, file, pc, previousState,
                   changes, shouldNotify, saved, sent, posts, exitCode,
                   delivery, probe, lastUp, other, wrapper>>

\* Promise.all resolved: previousState = loadPreviousState(), then
\* hasChanges / detectChanges / getChangedServices.  The first
\* previousState[result.url] throws when previousState is null: main() rejects.
Diff ==
    /\ pc = "probing"
    /\ AllDone
    /\ LET prev == loadPreviousState(file)
       IN  /\ previousState' = prev
           /\ IF PriorThrows(prev) /\ Len(results) > 0
              THEN /\ pc' = "failed"
                   /\ UNCHANGED <<changes, shouldNotify>>
              ELSE /\ changes' = ChangesOf(script, results, prev)
                   /\ shouldNotify' = ShouldNotifyOf(script, results, prev)
                   /\ pc' = "detected"
    /\ UNCHANGED <<script, env, force, webhook, file, chk, results, seen,
                   saved, sent, posts, exitCode,
                   delivery, probe, lastUp, other, wrapper>>

\* savePreviousState(currentState); a failed write is logged and swallowed.
Save(how) ==
    /\ pc = "detected"
    /\ file' = savePreviousState(file, currentState(results), how)
    /\ saved' = how
    /\ pc' = "saved"
    /\ UNCHANGED <<script, env, force, webhook, chk, results, seen, previousState,
                   changes, shouldNotify, sent, posts, exitCode,
                   delivery, probe, lastUp, other, wrapper>>

\* notify(message): one POST when the webhook is configured, a rejection of
\* which is swallowed by .catch(()=>{}); no request otherwise.
notify(delivered, requests, message, hasWebhook) ==
    [sent |-> Append(delivered, message),
     posts |-> IF hasWebhook THEN requests + 1 ELSE requests]

\* The promise of fetch(DISCORD_WEBHOOK_URL, {method: "POST", ...}), settled
\* by the transport.
fetchPost(ok) == IF ok THEN "fulfilled" ELSE "rejected"

\* A promise passed on as it is, without the .catch(()=>{}).
catchNothing(promise) == promise

\* promise.catch(()=>{}): a rejection becomes a fulfilment.
catchIgnore(promise) == "fulfilled"

\* How the promise of notify(message) settles.
notifySettles(hasWebhook, ok) ==
    IF hasWebhook THEN catchIgnore(fetchPost(ok)) ELSE "fulfilled"

\* What became of the POST of a notify call.
DeliveryOf(hasWebhook, ok) ==
    IF ~hasWebhook THEN "skipped" ELSE IF ok THEN "ok" ELSE "failed"

\* The notify decision and, when it sends, the awaited notify(statusMessage)
\* whose POST ends ok or not; then main() returns and the process exits 0.
\* A rejection of the awaited notify would reject main().
Notify(ok) ==
    /\ pc = "saved"
    /\ IF Sends(script, shouldNotify, force)
       THEN LET n == notify(sent, posts, MessageOf(script, results, changes, force), webhook)
                rejected == notifySettles(webhook, ok) = "rejected"
            IN  /\ sent' = n.sent
                /\ posts' = n.posts
                /\ delivery' = DeliveryOf(webhook, ok)
                /\ pc' = IF rejected THEN "failed" ELSE "done"
                /\ exitCode' = IF rejected THEN exitCode ELSE 0
       ELSE /\ UNCHANGED <<sent, posts, delivery>>
            /\ pc' = "done"
            /\ exitCode' = 0
    /\ UNCHANGED <<script, env, force, webhook, file, chk, results, seen, previousState,
                   changes, shouldNotify, saved, probe, lastUp, other, wrapper>>

\* A handler that neither notifies nor exits with a failure code.
mainCatchSilent(delivered, requests, hasWebhook) ==
    [sent |-> delivered, posts |-> requests, exitCode |-> 0]

\* The handler of main().catch: notify(failure message) and process.exit(1).
mainCatch(delivered, requests, hasWebhook) ==
    LET n == notify(delivered, requests, FailureMessage, hasWebhook)
    IN  [sent |-> n.sent, posts |-> n.posts, exitCode |-> 1]

\* main().catch: await notify(failure message), then process.exit(1).
FailNotify(ok) ==
    /\ pc = "failed"
    /\ LET h == mainCatch(sent, posts, webhook)
       IN  sent' = h.sent /\ posts' = h.posts /\ exitCode' = h.exitCode
    /\ delivery' = DeliveryOf(webhook, ok)
    /\ pc' = "exited"
    /\ UNCHANGED <<script, env, force, webhook, file, chk, results, seen, previousState,
                   changes, shouldNotify, saved, probe, lastUp, other, wrapper>>

\* The scheduler (or the status report script, which sets the force flag)
\* starts the next run; the state file is what the last run left.
NextRun(f) ==
    /\ pc \in {"done", "exited"}
    /\ force' = f
    /\ pc' = "start"
    /\ chk' = [t \in Idx |-> NewCheck]
    /\ results' = [t \in Idx |-> None]
    /\ seen' = [t \in Idx |-> NewSeen]
    /\ previousState' = None
    /\ changes' = <<>>
    /\ shouldNotify' = FALSE
    /\ saved' = "no"
    /\ sent' = <<>>
    /\ posts' = 0
    /\ exitCode' = -1
    /\ delivery' = "none"
    /\ lastUp' = IF pc = "done" /\ saved = "ok"
                 THEN [known |-> TRUE, up |-> [t \in Idx |-> results[t].up]]
                 ELSE NoRun
    /\ UNCHANGED <<script, env, webhook, file, probe, other, wrapper>>

\* The responses the fetches of one call can get.
ResponseSeqs == [1..(RETRIES + 1) -> Responses]

\* Runs of a script, one after the other, over every prior content of the
\* state file; each checkWithRetries call is one step.
Next ==
    \/ Launch
    \/ \E t \in Idx, rs \in ResponseSeqs : Check(t, rs)
    \/ Diff
    \/ \E how \in SaveOutcomes : Save(how)
    \/ \E ok \in BOOLEAN : Notify(ok)
    \/ \E ok \in BOOLEAN : FailNotify(ok)
    \/ \E f \in BOOLEAN : NextRun(f)

Spec == Init /\ [][Next]_vars

\* One run, every await of every check a step of its own, over a few prior
\* contents of the state file.
StepFiles ==
    {Absent, [kind |-> "null", members |-> <<>>],
     [kind |-> "object", members |-> <<[key |-> "u1", lit |-> "true"]>>]}

InitSteps ==
    /\ script \in Scripts
    /\ env \in Envs(script)
    /\ force \in BOOLEAN
    /\ webhook \in BOOLEAN
    /\ file \in StepFiles
    /\ probe = None
    /\ other = NoOther
    /\ wrapper = "none"
    /\ InitRun

NextSteps ==
    \/ Launch
    \/ \E t \in Idx, r \in Responses : Attempt(t, r)
    \/ \E t \in Idx : Cooldown(t)
    \/ Diff
    \/ \E how \in SaveOutcomes : Save(how)
    \/ \E ok \in BOOLEAN : Notify(ok)
    \/ \E ok \in BOOLEAN : FailNotify(ok)

SpecSteps == InitSteps /\ [][NextSteps]_vars

\* A single checkOnce call over target descriptors and responses wider than
\* the configured ones: an expected status or none (0), an expected text or
\* none, a body whose read can throw.
ProbeTexts ==
    {[isNull |-> TRUE, chars |-> <<>>], [isNull |-> FALSE, chars |-> <<>>],
     [isNull |-> FALSE, chars |-> <<"O", "K">>],
     [isNull |-> FALSE, chars |-> <<"o", "k">>]}

ProbeTargets ==
    {[name |-> "Production", url |-> "u1", expectStatus |-> st, expectText |-> tx] :
        st \in {0, 200, 404}, tx \in ProbeTexts}

ProbeBodies ==
    {[fails |-> TRUE, chars |-> <<>>],
     [fails |-> FALSE, chars |-> <<"O", "K">>],
     [fails |-> FALSE, chars |-> <<"a", "o", "k", "!">>],
     [fails |-> FALSE, chars |-> <<"k", "o">>]}

ProbeResponses ==
    {[kind |-> "error", status |-> 0, elapsed |-> 0, body |-> [fails |-> TRUE, chars |-> <<>>]]}
    \cup {[kind |-> "http", status |-> st, elapsed |-> ms, body |-> b] :
             st \in {200, 204, 404, 500}, ms \in {120, 3000}, b \in ProbeBodies}

InitProbe ==
    /\ script = "monitor"
    /\ env = [n \in Names |-> Unset]
    /\ force = FALSE
    /\ webhook = FALSE
    /\ file = Absent
    /\ probe \in {[target |-> t, resp |-> None, outcome |-> None, bodyRead |-> FALSE] :
                    t \in ProbeTargets}
    /\ other = NoOther
    /\ wrapper = "none"
    /\ InitRun

\* checkOnce(probe.target) with fetch answering r.
Probe(r) ==
    /\ probe.outcome = None
    /\ probe' = [probe EXCEPT !.resp = r,
                              !.outcome = checkOnce(probe.target, r),
                              !.bodyRead = readsBody(probe.target, r)]
    /\ UNCHANGED <<script, env, force, webhook, file, pc, chk, results, seen,
                   previousState, changes, shouldNotify, saved, sent, posts, exitCode,
                   delivery, lastUp, other, wrapper>>

NextProbe == \E r \in ProbeResponses : Probe(r)

SpecProbe == InitProbe /\ [][NextProbe]_vars

\* Two invocations of the same script that overlap.  Each is its own process:
\* the second one's main() is held in `other`.  writeFileSync(STATE_FILE, text)
\* is open(STATE_FILE, "w"), which truncates the file, then write of the text at
\* offset 0, then close; the two processes can interleave between the calls.

RECURSIVE MembersLen(_)
MembersLen(members) ==
    IF members = <<>> THEN 0
    ELSE LET lit == Head(members).lit
             litLen == IF lit = "true" THEN 4 ELSE IF lit = "false" THEN 5 ELSE 3
         IN  \* newline, two spaces, the quoted key, colon and space, the literal
             (1 + 2 + 4 + 2 + litLen) + MembersLen(Tail(members))

\* The length of a text: of JSON.stringify(state, null, 2) for an object
\* text, 0 for the file just truncated (the one unparseable text a write meets).
TextLen(f) ==
    IF f.kind # "object" THEN 0
    ELSE IF f.members = <<>> THEN 2
    ELSE 1 + MembersLen(f.members) + (Len(f.members) - 1) + 2

\* open(STATE_FILE, "w"): the file exists and is empty, an unparseable text.
openTruncate(f) == Garbage

\* A write that keeps the first member of what the file holds.
writeKeepingFirst(f, text) ==
    IF f.kind = "object" /\ f.members # <<>> /\ text.members # <<>>
    THEN [kind |-> "object", members |-> <<f.members[1]>> \o Tail(text.members)]
    ELSE text

\* write(fd, text) at offset 0: the text replaces the beginning of the file;
\* what a longer content has beyond it stays and makes the file unparseable.
writeAtStart(f, text) ==
    IF TextLen(text) >= TextLen(f) THEN text ELSE Garbage

NewOther ==
    [pc |-> "probing", results |-> [t \in Idx |-> None], previousState |-> None,
     saved |-> "no", exitCode |-> -1, lastWriter |-> "none", file0 |-> file]

\* The responses of the checks of the overlapping runs: all up or all failed.
OverlapSeqs ==
    {[k \in 1..(RETRIES + 1) |-> [kind |-> "http", status |-> 200, elapsed |-> 120]],
     [k \in 1..(RETRIES + 1) |-> [kind |-> "error", status |-> 0, elapsed |-> 0]]}

InitOverlap ==
    /\ script \in Scripts
    /\ env \in Envs(script)
    /\ force = FALSE
    /\ webhook \in BOOLEAN
    /\ file \in StepFiles
    /\ probe = None
    /\ wrapper = "none"
    /\ InitRun
    /\ other = NewOther

\* savePreviousState of this invocation, first half: the file is opened.
Open ==
    /\ pc = "detected"
    /\ file' = openTruncate(file)
    /\ pc' = "writing"
    /\ UNCHANGED <<script, env, force, webhook, chk, results, seen, previousState,
                   changes, shouldNotify, saved, sent, posts, exitCode, delivery,
                   probe, lastUp, other, wrapper>>

\* savePreviousState of this invocation, second half: the text is written.
Write ==
    /\ pc = "writing"
    /\ file' = writeAtStart(file, JSONstringify(currentState(results)))
    /\ saved' = "ok"
    /\ pc' = "saved"
    /\ other' = [other EXCEPT !.lastWriter = "this"]
    /\ UNCHANGED <<script, env, force, webhook, chk, results, seen, previousState,
                   changes, shouldNotify, sent, posts, exitCode, delivery,
                   probe, lastUp, wrapper>>

OtherUnchanged ==
    UNCHANGED <<script, env, force, webhook, pc, chk, results, seen, previousState,
                changes, shouldNotify, saved, sent, posts, exitCode, delivery,
                probe, lastUp, wrapper>>

\* A checkWithRetries call of the other invocation returns.
OtherCheck(t, rs) ==
    /\ other.pc = "probing"
    /\ other.results[t] = None
    /\ other' = [other EXCEPT
                    !.results = promiseAll(@, t, checkWithRetries(Targets[t], rs))]
    /\ UNCHANGED file
    /\ OtherUnchanged

\* The other invocation loads the state file and reads its entries.
OtherDiff ==
    /\ other.pc = "probing"
    /\ \A t \in Idx : other.results[t] # None
    /\ LET prev == loadPreviousState(file)
       IN  other' = [other EXCEPT
                        !.previousState = prev,
                        !.pc = IF PriorThrows(prev) /\ Len(other.results) > 0
                               THEN "failed" ELSE "detected"]
    /\ UNCHANGED file
    /\ OtherUnchanged

OtherOpen ==
    /\ other.pc = "detected"
    /\ file' = openTruncate(file)
    /\ other' = [other EXCEPT !.pc = "writing"]
    /\ OtherUnchanged

OtherWrite ==
    /\ other.pc = "writing"
    /\ file' = writeAtStart(file, JSONstringify(currentState(other.results)))
    /\ other' = [other EXCEPT !.pc = "saved", !.saved = "ok", !.lastWriter = "other"]
    /\ OtherUnchanged

\* The other invocation ends: main() returns, or main().catch exits with 1.
OtherEnd ==
    /\ other.pc \in {"saved", "failed"}
    /\ other' = [other EXCEPT !.pc = IF other.pc = "saved" THEN "done" ELSE "exited",
                               !.exitCode = IF other.pc = "saved" THEN 0 ELSE 1]
    /\ UNCHANGED file
    /\ OtherUnchanged

NextOverlap ==
    \/ Launch
    \/ \E t \in Idx, rs \in OverlapSeqs : Check(t, rs)
    \/ Diff
    \/ Open
    \/ Write
    \/ \E ok \in BOOLEAN : Notify(ok)
    \/ \E ok \in BOOLEAN : FailNotify(ok)
    \/ \E t \in Idx, rs \in OverlapSeqs : OtherCheck(t, rs)
    \/ OtherDiff
    \/ OtherOpen
    \/ OtherWrite
    \/ OtherEnd

SpecOverlap == InitOverlap /\ [][NextOverlap]_vars

\* The status report script: it sets FORCE_STATUS_REPORT, imports monitor.mjs
\* and logs "Status report completed" when the promise of import() resolves.
\* That promise resolves when the module body has been evaluated; the body of
\* monitor.mjs ends with `main().catch(...)`, which it does not await.
InitReport ==
    /\ script = "monitor"
    /\ env \in Envs(script)
    /\ force \in BOOLEAN
    /\ webhook \in BOOLEAN
    /\ file \in StepFiles
    /\ probe = None
    /\ other = NoOther
    /\ wrapper = "start"
    /\ InitRun

\* process.env.FORCE_STATUS_REPORT = "true"
SetForce ==
    /\ wrapper = "start"
    /\ force' = TRUE
    /\ wrapper' = "importing"
    /\ UNCHANGED <<script, env, webhook, file, pc, chk, results, seen, previousState,
                   changes, shouldNotify, saved, sent, posts, exitCode, delivery,
                   probe, lastUp, other>>

\* import("./monitor.mjs") evaluates the module, which starts main().
Import == wrapper = "importing" /\ Launch

\* .then(() => console.log("Status report completed")): it runs once the
\* module body has been evaluated, unless process.exit(1) ended the process.
ReportCompleted ==
    /\ wrapper = "importing"
    /\ pc \notin {"start", "exited"}
    /\ wrapper' = "completed"
    /\ UNCHANGED <<script, env, force, webhook, file, pc, chk, results, seen,
                   previousState, changes, shouldNotify, saved, sent, posts, exitCode,
                   delivery, probe, lastUp, other>>

NextReport ==
    \/ SetForce
    \/ Import
    \/ ReportCompleted
    \/ \E t \in Idx, rs \in ResponseSeqs : Check(t, rs)
    \/ Diff
    \/ \E how \in SaveOutcomes : Save(how)
    \/ \E ok \in BOOLEAN : Notify(ok)
    \/ \E ok \in BOOLEAN : FailNotify(ok)

SpecReport == InitReport /\ [][NextReport]_vars

----------------------------------------------------------------------------
(* Properties *)

\* The run has loaded the prior state and detected changes.
Detected == pc \in {"detected", "saved", "done"}

\* previousState[url] of target t, and its current up value as stored.
PriorOf(t) == Prior(previousState, results[t].url)

NowOf(t) == JsBool(results[t].up)

\* The transitions the running script produced for target t.  monitor.mjs keeps
\* no list: its hasChanges loop either returns true at the target or passes it.
TransitionsFor(t) ==
    IF script = "monitor"
    THEN IF hasChanges(<<results[t]>>, previousState)
         THEN <<[type |-> "change", result |-> results[t]]>>
         ELSE <<>>
    ELSE SelectSeq(changes, LAMBDA c : c.result = results[t])

\* The lines of a message that name a service, as <<name, url>>.
ServiceLines(m) ==
    LET ls == SelectSeq(m, LAMBDA l : l.tag \notin {"title", "head", "footer"})
    IN  [k \in DOMAIN ls |-> <<ls[k].name, ls[k].url>>]

\* All results, the up ones first and then the down ones, as <<name, url>>.
UpThenDown ==
    LET rs == Filter(results, TRUE) \o Filter(results, FALSE)
    IN  [k \in DOMAIN rs |-> <<rs[k].name, rs[k].url>>]

\* C1: a target without an entry in the prior state that is up now gets no
\* transition, and a run where every target is such a target, the force flag
\* unset, hands nothing to notify.
C1_FirstRunHealthySilent ==
    Detected =>
        /\ \A t \in Idx :
              (PriorOf(t) = JsUndefined /\ results[t].up) => TransitionsFor(t) = <<>>
        /\ (pc = "done" /\ ~force
              /\ \A t \in Idx : PriorOf(t) = JsUndefined /\ results[t].up)
           => sent = <<>>

\* C2: a target without an entry in the prior state that is down now gets
\* exactly one transition, an initial-down one, and the run then hands a
\* message to notify even with the force flag unset.
C2_FirstDownNotified ==
    Detected =>
        /\ \A t \in Idx :
              (PriorOf(t) = JsUndefined /\ ~results[t].up)
              => /\ Len(TransitionsFor(t)) = 1
                 /\ TransitionsFor(t)[1].type \in {"initial_down", "change"}
        /\ (pc = "done" /\ ~force
              /\ \E t \in Idx : PriorOf(t) = JsUndefined /\ ~results[t].up)
           => Len(sent) = 1

\* C3: a target whose prior entry is present and differs from its current up
\* value gets exactly one transition: went-down for true -> false, recovered
\* for false -> true (monitor.mjs, which has no kinds, flags the change).
C3_ExactlyOneTransition ==
    Detected =>
        \A t \in Idx :
            (PriorOf(t) # JsUndefined /\ PriorOf(t) # NowOf(t))
            => /\ Len(TransitionsFor(t)) = 1
               /\ script = "monitor" => shouldNotify
               /\ (script # "monitor" /\ PriorOf(t) = JsTrue /\ ~results[t].up)
                  => TransitionsFor(t)[1].type \in {"went_down", "down"}
               /\ (script # "monitor" /\ PriorOf(t) = JsFalse /\ results[t].up)
                  => TransitionsFor(t)[1].type = "recovered"

\* A run that detected a went-down and a recovered target at once.
C3_Witness ==
    /\ Detected
    /\ script = "part_002"
    /\ \E t \in Idx : PriorOf(t) = JsTrue /\ ~results[t].up
    /\ \E t \in Idx : PriorOf(t) = JsFalse /\ results[t].up
    /\ Len(changes) = 2

\* C4: a target whose prior entry equals its current up value gets no
\* transition, and a run where that holds of every target, the force flag
\* unset, hands nothing to notify and issues no POST.
C4_NoChangeSilent ==
    Detected =>
        /\ \A t \in Idx : PriorOf(t) = NowOf(t) => TransitionsFor(t) = <<>>
        /\ (pc = "done" /\ ~force /\ \A t \in Idx : PriorOf(t) = NowOf(t))
           => sent = <<>> /\ posts = 0

\* A finished quiet run over one target that stayed up and one that stayed down.
C4_Witness ==
    /\ pc = "done"
    /\ ~force
    /\ webhook
    /\ \A t \in Idx : PriorOf(t) = NowOf(t)
    /\ \E t \in Idx : results[t].up
    /\ \E t \in Idx : ~results[t].up
    /\ sent = <<>>

\* C5: with the webhook configured, a run that completes normally issues a
\* POST exactly when the transitions of its outcomes against the loaded prior
\* state (initial-down, went-down, recovered) are not empty or the force flag
\* is set.
C5_NotifyIffTransitions ==
    (pc = "done" /\ webhook)
    => (posts = 1 <=> (Len(detectChanges(results, previousState)) > 0 \/ force))

\* C6: with the force flag set, a run that completes normally hands notify
\* one non-empty message that lists every configured target, the up ones and
\* then the down ones, whatever the transitions and also with no target.
C6_ForcedFullReport ==
    (pc = "done" /\ force)
    => /\ Len(sent) = 1
       /\ sent[1] # <<>>
       /\ ServiceLines(sent[1]) = UpThenDown

\* C7: a check makes at least one and at most RETRIES+1 attempts, and makes no
\* attempt and waits no cooldown once an attempt has returned up.
C7_AttemptsBounded ==
    \A t \in Idx :
        /\ seen[t].attempts <= RETRIES + 1
        /\ results[t] # None => seen[t].attempts >= 1
        /\ seen[t].afterUp = 0

\* One check returned after RETRIES+1 failed attempts, another on its second.
C7_Witness ==
    /\ \E t \in Idx : results[t] # None /\ seen[t].attempts = RETRIES + 1
                       /\ seen[t].cooldowns = RETRIES /\ ~results[t].up
    /\ \E t \in Idx : results[t] # None /\ seen[t].firstUp = 2 /\ seen[t].cooldowns = 1

\* The retrier part of C8: a check returns the outcome of its most recent
\* attempt, which is its first successful one if any attempt succeeded and
\* its (RETRIES+1)-th otherwise.
RetrierReturnsLast ==
    \A t \in Idx :
        results[t] # None
        => /\ results[t] = checkOnce(Targets[t], seen[t].resp)
           /\ seen[t].firstUp # 0 => (results[t].up /\ seen[t].attempts = seen[t].firstUp)
           /\ seen[t].firstUp = 0 => (~results[t].up /\ seen[t].attempts = RETRIES + 1)

\* C8: a check returns its first successful outcome, or the outcome of the
\* final attempt when all RETRIES+1 fail; and a target without prior state
\* that succeeds on its last attempt gets no transition.
C8_RetrierOutcome ==
    /\ RetrierReturnsLast
    /\ Detected =>
          \A t \in Idx :
              (seen[t].firstUp = RETRIES + 1 /\ PriorOf(t) = JsUndefined)
              => TransitionsFor(t) = <<>>

\* The keys of the written state file, and the literal stored under a key.
FileKeys == {file.members[k].key : k \in DOMAIN file.members}

FileLit(u) == file.members[CHOOSE k \in DOMAIN file.members : file.members[k].key = u].lit

BoolLit(b) == IF b THEN "true" ELSE "false"

SaveSucceeded == pc \in {"saved", "done"} /\ saved = "ok"

\* C9 as stated: after a run with a successful save the file holds exactly
\* one entry url : up for every outcome of the run and nothing else, and a
\* run that completes has called the save, notified or not.
C9_StateEqualsOutcomes ==
    /\ SaveSucceeded =>
          /\ file.kind = "object"
          /\ FileKeys = {results[t].url : t \in Idx}
          /\ \A t \in Idx : FileLit(results[t].url) = BoolLit(results[t].up)
    /\ pc = "done" => saved # "no"

\* The last target, in configuration order, that has the URL u.
LastWith(u) == CHOOSE t \in Idx : results[t].url = u /\ \A k \in Idx : k > t => results[k].url # u

\* C9 amended: the file holds exactly the configured URLs, each with the up
\* value of the last outcome, in configuration order, that has that URL.
C9_StateEqualsLastOutcomes ==
    /\ SaveSucceeded =>
          /\ file.kind = "object"
          /\ FileKeys = {results[t].url : t \in Idx}
          /\ Len(file.members) = Cardinality(FileKeys)
          /\ \A u \in FileKeys : FileLit(u) = BoolLit(results[LastWith(u)].up)
    /\ pc = "done" => saved # "no"

\* A saved run whose prior state had an entry for a URL no longer configured
\* and whose two targets share a URL with different outcomes; nothing sent.
C9_Witness ==
    /\ pc = "done"
    /\ saved = "ok"
    /\ sent = <<>>
    /\ \E u \in Urls : Prior(previousState, u) # JsUndefined /\ u \notin FileKeys
    /\ \E a, b \in Idx : a < b /\ results[a].url = results[b].url
                          /\ results[a].up /\ ~results[b].up

\* C10: load() after a successful save(state) returns a mapping equal to state.
C10_RoundTrip ==
    SaveSucceeded =>
        LET loaded == loadPreviousState(file)
            state  == currentState(results)
        IN  /\ loaded.t = "object"
            /\ \A u \in Urls : Prior(loaded, u) = Prior(state, u)
            /\ \A u \in Urls : Prior(state, u) # JsUndefined
                               <=> \E t \in Idx : results[t].url = u

\* A saved state with one true and one false entry.
C10_Witness ==
    /\ SaveSucceeded
    /\ \E u, v \in Urls : /\ Prior(currentState(results), u) = JsTrue
                          /\ Prior(currentState(results), v) = JsFalse
                          /\ Prior(loadPreviousState(file), u) = JsTrue
                          /\ Prior(loadPreviousState(file), v) = JsFalse

\* The transitions target t would get from an empty prior state.
NoPriorTransitionsFor(t) ==
    IF script = "monitor"
    THEN IF hasChanges(<<results[t]>>, EmptyObject)
         THEN <<[type |-> "change", result |-> results[t]]>>
         ELSE <<>>
    ELSE ChangesOf(script, <<results[t]>>, EmptyObject)

\* C11: whatever the state file holds (nothing, an unparseable text, the JSON
\* text of null, of a number, of an array, of an object with a value that is
\* not a boolean), the loaded value is a mapping, change detection on it does
\* not fail the run, and a target without a boolean entry gets the
\* transitions of a target without prior state.
C11_LoadAlwaysMapping ==
    previousState # None =>
        /\ previousState.t = "object"
        /\ pc \notin {"failed", "exited"}
        /\ Detected =>
              \A t \in Idx : PriorOf(t) \notin {JsTrue, JsFalse}
                             => TransitionsFor(t) = NoPriorTransitionsFor(t)

\* C12: every notify call issues one POST when the webhook is configured
\* and none otherwise, and a run that handed its status message to notify is
\* at Done with exit code 0 however the POST ended.
C12_DeliveryNeverFailsRun ==
    /\ posts = IF webhook THEN Len(sent) ELSE 0
    /\ Len(sent) <= 1
    /\ (sent # <<>> /\ sent[1] # FailureMessage)
       => (pc = "done" /\ exitCode = 0 /\ delivery # "none")

\* A run that finished with exit code 0 after its one POST was rejected.
C12_Witness ==
    /\ pc = "done"
    /\ exitCode = 0
    /\ webhook
    /\ delivery = "failed"
    /\ posts = 1
    /\ saved = "ok"

\* C13: a run whose main() rejected (the one error the orchestration can
\* raise is the property read on a null prior state) is in Failed without
\* having saved or notified; it then hands exactly the failure message to
\* notify, once, and exits with code 1, and nothing is saved or notified
\* after that.  A process exits with 1 only on that path, and a run that
\* completed has exit code 0, notified or not.
C13_FailedPath ==
    /\ pc = "failed" => (exitCode = -1 /\ sent = <<>> /\ saved = "no")
    /\ pc = "exited" => /\ exitCode = 1
                        /\ sent = <<FailureMessage>>
                        /\ posts = (IF webhook THEN 1 ELSE 0)
                        /\ saved = "no"
    /\ exitCode = 1 => pc = "exited"
    /\ pc = "done" <=> exitCode = 0

\* A failed run whose failure notification was posted and rejected as well.
C13_Witness ==
    /\ pc = "exited"
    /\ exitCode = 1
    /\ previousState.t = "null"
    /\ Len(results) = 2
    /\ webhook
    /\ delivery = "failed"
    /\ sent = <<FailureMessage>>

\* What a run over the outcomes rs and the prior state prev hands to notify.
SentFor(rs, prev) ==
    IF Sends(script, ShouldNotifyOf(script, rs, prev), force)
    THEN <<MessageOf(script, rs, ChangesOf(script, rs, prev), force)>>
    ELSE <<>>

\* C14: after a failed save the state file still holds the prior state the
\* run loaded, and the run completes with exit code 0 having handed notify
\* what its outcomes and prior state call for, as after a successful save.
C14_SaveFailureKeepsState ==
    (pc \in {"saved", "done"} /\ saved \in {"eopen", "ewrite"})
    => /\ loadPreviousState(file) = previousState
       /\ pc = "done" => (exitCode = 0 /\ sent = SentFor(results, previousState))

\* The services with a transition (initial-down, went-down, recovered), the
\* recovered ones first and then the down ones, as <<name, url>>.
RecoveredThenDown ==
    LET cs == detectChanges(results, previousState)
        rs == FilterType(cs, "recovered") \o FilterType(cs, "went_down")
    IN  IF \E k \in DOMAIN cs : cs[k].type = "initial_down"
        THEN LET ds  == SelectSeq(cs, LAMBDA c : c.type # "recovered")
                 all == FilterType(cs, "recovered") \o [k \in DOMAIN ds |-> ds[k].result]
             IN  [k \in DOMAIN all |-> <<all[k].name, all[k].url>>]
        ELSE [k \in DOMAIN rs |-> <<rs[k].name, rs[k].url>>]

\* C15: a completed run without the force flag and with at least one
\* transition hands notify one message whose service lines are exactly the
\* transitioned services, the recovered ones and then the down ones.
C15_ChangeOnlyMessage ==
    (pc = "done" /\ ~force /\ Len(detectChanges(results, previousState)) > 0)
    => /\ Len(sent) = 1
       /\ ServiceLines(sent[1]) = RecoveredThenDown

\* The probe has returned.
Probed == probe # None /\ probe.outcome # None

\* The body contains the text, letter case ignored.
ContainsIgnoringCase(body, text) ==
    LET same(a, b) == a = b \/ {a, b} = {"O", "o"} \/ {a, b} = {"K", "k"}
    IN  \E i \in 0..(Len(body) - Len(text)) :
            \A k \in 1..Len(text) : same(body[i + k], text[k])

\* C16: checkOnce returns an outcome for every response; it is up exactly
\* when fetch answered, the status equals the expected status (is 2xx when
\* none is set) and, with an expected text set, the body was read and contains
\* it in any letter case; the body is read only when an expected text is set;
\* a throw of fetch or of the body read gives up = false, status 0 and an error.
C16_ProbeClassification ==
    Probed =>
        LET t == probe.target
            r == probe.resp
            o == probe.outcome
            textSet  == Truthy(t.expectText)
            statusOk == IF t.expectStatus # 0 THEN r.status = t.expectStatus
                        ELSE r.status \in 200..299
            threw    == r.kind = "error" \/ (textSet /\ r.body.fails)
        IN  /\ o.name = t.name /\ o.url = t.url
            /\ o.up <=> /\ ~threw
                        /\ statusOk
                        /\ textSet => ContainsIgnoringCase(r.body.chars, t.expectText.chars)
            /\ probe.bodyRead <=> (r.kind = "http" /\ textSet)
            /\ threw => (~o.up /\ o.status = 0 /\ o.error)
            /\ ~threw => (o.status = r.status /\ ~o.error)

\* A probe whose status matched and whose body holds the expected text in
\* another letter case, and so is up.
C16_Witness ==
    /\ Probed
    /\ probe.outcome.up
    /\ probe.bodyRead
    /\ probe.target.expectStatus = 404
    /\ probe.target.expectText.chars = <<"O", "K">>
    /\ probe.resp.body.chars = <<"a", "o", "k", "!">>

\* C17: an outcome that is not up has no latency and is not slow, and its
\* status is 0 exactly when the probe did not complete.
C17_OutcomeInvariants ==
    Probed =>
        LET t == probe.target
            r == probe.resp
            o == probe.outcome
            completed == r.kind = "http" /\ ~(Truthy(t.expectText) /\ r.body.fails)
        IN  /\ ~o.up => (o.ms = NullMs /\ ~o.slow)
            /\ o.status = 0 <=> ~completed

\* The position in results of the outcome a change carries.
PositionOf(c) == CHOOSE t \in Idx : results[t] = c.result

\* C18: an outcome in results is the returned outcome of the check of the
\* target at the same position; the prior state is loaded, changes are
\* detected, the file is saved and a message is sent only when every check has
\* returned an outcome; and the changes follow the configuration order.
C18_JoinBarrier ==
    /\ \A t \in Idx :
          results[t] # None
          => /\ chk[t].phase = "done"
             /\ results[t] = chk[t].last
             /\ results[t].name = Targets[t].name
             /\ results[t].url = Targets[t].url
    /\ (pc \notin {"start", "probing"} \/ previousState # None \/ saved # "no"
          \/ sent # <<>>)
       => \A t \in Idx : chk[t].phase = "done" /\ results[t] # None
                          /\ results[t].up \in BOOLEAN
    /\ Detected => \A i, j \in DOMAIN changes :
                       i < j => PositionOf(changes[i]) < PositionOf(changes[j])

\* Changes detected for two targets of which the second returned first.
C18_Witness ==
    /\ pc = "detected"
    /\ Len(changes) = 2
    /\ seen[1].rank = 2
    /\ seen[2].rank = 1
    /\ seen[1].attempts = RETRIES + 1
    /\ changes[1].result.name = Targets[1].name
    /\ changes[2].result.name = Targets[2].name

\* C19: the state file is read before any check returns an outcome, and
\* it is written only once the notify decision and the delivery are over.
C19_StepOrder ==
    /\ (\E t \in Idx : results[t] # None) => previousState # None
    /\ saved # "no" => pc = "done"

\* Targets with the same URL have the same up value in ups.
SameUpPerUrl(ups) ==
    \A a, b \in Idx : Targets[a].url = Targets[b].url => ups[a] = ups[b]

\* A completed run without the force flag that follows a run of the same
\* configuration which saved its outcomes.
FollowsSavedRun == pc = "done" /\ ~force /\ lastUp.known

BothEnded == pc \in {"done", "exited"} /\ other.pc \in {"done", "exited"}

\* The text of the complete state of the invocation that wrote last.
LastWritten ==
    IF other.lastWriter = "this" THEN JSONstringify(currentState(results))
    ELSE JSONstringify(currentState(other.results))

\* An invocation fails only on a null prior state, which is what the file held
\* before both started and never what the other one wrote.
NoFailureByOther ==
    /\ pc \in {"failed", "exited"}
       => (previousState.t = "null" /\ other.file0.kind = "null")
    /\ other.pc \in {"failed", "exited"}
       => (other.previousState.t = "null" /\ other.file0.kind = "null")

C22_WrapperReportsAfterRun ==
    /\ pc # "start" => force
    /\ wrapper = "completed" => (pc = "done" /\ AllDone /\ Len(sent) = 1)
    /\ pc \in {"failed", "exited"} => wrapper # "completed"

====
